---- MODULE Spec2Model ----
(***************************************************************************)
(* PipHack: the command confirmation and execution gateway.                *)
(*                                                                         *)
(* tools/shell_tool.py holds the process-wide state (two flags and the     *)
(* pending queue), the gateway execute_shell_command and the execution     *)
(* primitive execute_command_directly.  main.py is the Streamlit script:   *)
(* every operator interaction (a checkbox, a button, a chat prompt) is one *)
(* run of main() in the operator's session; st.rerun() chains a further    *)
(* run with no widget event.                                               *)
(*                                                                         *)
(* Text is a sequence of one-character strings.  Commands are opaque       *)
(* strings.  Chat messages, whose content is an f-string template around   *)
(* a command and an output, are records naming the template and its holes. *)
(***************************************************************************)
EXTENDS Integers, Sequences, FiniteSets, TLC

(* ------------------------------ bounds --------------------------------- *)

\* agent work over the whole run: chat prompts accepted plus tool calls
\* (submits) made
MaxWork == 3

\* how far around the truncation cap the captured lengths are drawn
Slack == 1

\* browser sessions served by the one process
Sessions == {"s1", "s2"}

\* the (command, timeout) pairs an agent passes to the tool
SubmitInputs ==
    { [command |-> "id", timeout |-> 300],
      [command |-> "ls", timeout |-> 10] }

(* ------------------------- program constants --------------------------- *)

MAX_OUTPUT_CHARACTERS == 30000

STDERR_DIVIDER ==
    <<"\n", "-", "-", "-", " ", "S", "T", "D", "E", "R", "R", " ", "-", "-", "-", "\n">>

TRUNCATED_HEAD ==
    <<"\n", "\n", "[", "O", "u", "t", "p", "u", "t", " ", "t", "r", "u", "n", "c", "a", "t", "e", "d", " ", "-", " ", "s", "h", "o", "w", "i", "n", "g", " ", "f", "i", "r", "s", "t", " ">>

TRUNCATED_TAIL ==
    <<" ", "c", "h", "a", "r", "a", "c", "t", "e", "r", "s", "]">>

TOTAL_HEAD ==
    <<"\n", "T", "o", "t", "a", "l", " ", "o", "u", "t", "p", "u", "t", " ", "l", "e", "n", "g", "t", "h", ":", " ">>

TOTAL_TAIL ==
    <<" ", "c", "h", "a", "r", "a", "c", "t", "e", "r", "s">>

EXIT_HEAD ==
    <<"C", "o", "m", "m", "a", "n", "d", " ", "e", "x", "i", "t", "e", "d", " ", "w", "i", "t", "h", " ", "c", "o", "d", "e", " ">>

EXIT_TAIL ==
    <<"\n", "\n">>

NO_OUTPUT ==
    <<"(", "n", "o", " ", "o", "u", "t", "p", "u", "t", " ", "c", "a", "p", "t", "u", "r", "e", "d", " ", "f", "r", "o", "m", " ", "t", "h", "e", " ", "c", "o", "m", "m", "a", "n", "d", ")">>

TIMEOUT_HEAD ==
    <<"C", "o", "m", "m", "a", "n", "d", " ", "t", "i", "m", "e", "d", " ", "o", "u", "t", " ", "a", "f", "t", "e", "r", " ">>

TIMEOUT_TAIL ==
    <<" ", "s", "e", "c", "o", "n", "d", "s", ".">>

ERROR_HEAD ==
    <<"E", "r", "r", "o", "r", " ", "e", "x", "e", "c", "u", "t", "i", "n", "g", " ", "c", "o", "m", "m", "a", "n", "d", ":", " ">>

\* the characters str.strip() removes
Whitespace == {" ", "\n", "\t", "\r"}

(* --------------------------- text helpers ------------------------------ *)

DigitChar(d) ==
    CASE d = 0 -> "0" [] d = 1 -> "1" [] d = 2 -> "2" [] d = 3 -> "3"
      [] d = 4 -> "4" [] d = 5 -> "5" [] d = 6 -> "6" [] d = 7 -> "7"
      [] d = 8 -> "8" [] d = 9 -> "9"

RECURSIVE NatStr(_)
NatStr(n) ==
    IF n < 10 THEN <<DigitChar(n)>>
    ELSE NatStr(n \div 10) \o <<DigitChar(n % 10)>>

\* str(n) of a Python int, as an f-string renders it
IntStr(n) ==
    IF n < 0 THEN <<"-">> \o NatStr(0 - n) ELSE NatStr(n)

\* text.strip(): the text without its leading and trailing whitespace
Strip(text) ==
    IF \A i \in 1..Len(text) : text[i] \in Whitespace THEN <<>>
    ELSE LET lo == CHOOSE i \in 1..Len(text) :
                     /\ text[i] \notin Whitespace
                     /\ \A j \in 1..(i - 1) : text[j] \in Whitespace
             hi == CHOOSE i \in 1..Len(text) :
                     /\ text[i] \notin Whitespace
                     /\ \A j \in (i + 1)..Len(text) : text[j] \in Whitespace
         IN  SubSeq(text, lo, hi)

(* ----------------------- the execution primitive ----------------------- *)

\* lines 63-69: stdout, then the divider when both are non-empty, then stderr
Concatenate(stdout, stderr) ==
    LET out1 == IF stdout # <<>> THEN stdout ELSE <<>>
    IN  IF stderr # <<>>
        THEN (IF out1 # <<>> THEN out1 \o STDERR_DIVIDER ELSE out1) \o stderr
        ELSE out1

\* variant: the cap test written with >= instead of >
Truncate_at_cap(output) ==
    IF Len(output) >= MAX_OUTPUT_CHARACTERS
    THEN SubSeq(output, 1, MAX_OUTPUT_CHARACTERS)
         \o TRUNCATED_HEAD \o IntStr(MAX_OUTPUT_CHARACTERS) \o TRUNCATED_TAIL
         \o TOTAL_HEAD \o IntStr(Len(output)) \o TOTAL_TAIL
    ELSE output

\* lines 71-76: cut to the cap and note the original length
Truncate(output) ==
    IF Len(output) > MAX_OUTPUT_CHARACTERS
    THEN SubSeq(output, 1, MAX_OUTPUT_CHARACTERS)
         \o TRUNCATED_HEAD \o IntStr(MAX_OUTPUT_CHARACTERS) \o TRUNCATED_TAIL
         \o TOTAL_HEAD \o IntStr(Len(output)) \o TOTAL_TAIL
    ELSE output

\* lines 78-79
ReportExitCode(returncode, output) ==
    IF returncode # 0
    THEN EXIT_HEAD \o IntStr(returncode) \o EXIT_TAIL \o output
    ELSE output

\* lines 81-82
SubstituteEmpty(output) ==
    IF Strip(output) = <<>> THEN NO_OUTPUT ELSE output

\* variant: the exit-code line is prepended before the cap is applied
execute_command_directly_prefix_first(command, timeout, proc) ==
    CASE proc.kind = "exit" ->
            SubstituteEmpty(
                Truncate(
                    ReportExitCode(proc.returncode,
                        Concatenate(proc.stdout, proc.stderr))))
      [] proc.kind = "timeout" ->
            TIMEOUT_HEAD \o IntStr(timeout) \o TIMEOUT_TAIL
      [] proc.kind = "error" ->
            ERROR_HEAD \o proc.error

\* variant: the timeout report names the default timeout, not the one passed
execute_command_directly_fixed_timeout(command, timeout, proc) ==
    CASE proc.kind = "exit" ->
            SubstituteEmpty(
                ReportExitCode(proc.returncode,
                    Truncate(Concatenate(proc.stdout, proc.stderr))))
      [] proc.kind = "timeout" ->
            TIMEOUT_HEAD \o IntStr(300) \o TIMEOUT_TAIL
      [] proc.kind = "error" ->
            ERROR_HEAD \o proc.error

\* what subprocess.run did: it returned a CompletedProcess ("exit"), raised
\* TimeoutExpired ("timeout") or raised another exception ("error")
execute_command_directly(command, timeout, proc) ==
    CASE proc.kind = "exit" ->
            SubstituteEmpty(
                ReportExitCode(proc.returncode,
                    Truncate(Concatenate(proc.stdout, proc.stderr))))
      [] proc.kind = "timeout" ->
            TIMEOUT_HEAD \o IntStr(timeout) \o TIMEOUT_TAIL
      [] proc.kind = "error" ->
            ERROR_HEAD \o proc.error

(* ------------------------------ state ---------------------------------- *)

VARIABLES
    shell_commands_enabled,      \* shell_tool.py global
    confirmation_mode_enabled,   \* shell_tool.py global
    pending_commands,            \* shell_tool.py global: the queue
    ss_shell_commands_enabled,   \* st.session_state, per session
    ss_confirmation_mode,        \* st.session_state, per session
    messages,                    \* st.session_state.messages, per session
    command_results,             \* st.session_state.command_results
    pc,                          \* per session: "new", "idle", "agent"
    shown,                       \* per session: confirm/cancel rows on its page
    ret,                         \* per session: what the agent's last tool call returned
    exec_log,                    \* history: the subprocess.run calls, in order
    denied,                      \* history: identities of the entries cancelled
    ncalls,                      \* tool calls made so far
    nturns,                      \* prompts accepted so far
    run_pc,                      \* one call of the execution primitive:
    run_proc,                    \*   what the subprocess did
    run_timeout,                 \*   the timeout passed
    run_output,                  \*   the text returned
    sub,                         \* the submit in flight: where it is, what it read
    snapshot,                    \* a list get_pending_commands returned to a caller
    approve                      \* per session: the Confirm / Cancel handler in flight

gateway_vars == <<shell_commands_enabled, confirmation_mode_enabled, pending_commands>>

session_vars == <<ss_shell_commands_enabled, ss_confirmation_mode, messages,
                  command_results, pc, shown, ret>>

history_vars == <<exec_log, denied, ncalls, nturns>>

run_vars == <<run_pc, run_proc, run_timeout, run_output>>

thread_vars == <<sub, snapshot, approve>>

vars == <<gateway_vars, session_vars, history_vars, run_vars, thread_vars>>

None == [outcome |-> "none"]

NoProc == [kind |-> "none"]

\* no submit is in flight
NoCall ==
    [pc |-> "idle", command |-> "", timeout |-> 0, held |-> {}, ret |-> None]

\* no handler is in flight
NoApproval == [pc |-> "idle"]


(* --------------------- shell_tool.py: state access --------------------- *)

\* variant: the setter without its "global" statement binds a local name
set_shell_commands_enabled_local(enabled) == shell_commands_enabled

set_shell_commands_enabled(enabled) == enabled

\* variant: the setter without its "global" statement binds a local name
set_confirmation_mode_local(enabled) == confirmation_mode_enabled

set_confirmation_mode(enabled) == enabled

\* pending_commands.copy(): a new list with the same entries
get_pending_commands == pending_commands

\* variant: without its "global" statement the assignment binds a local name
clear_pending_commands_local == pending_commands

clear_pending_commands == <<>>

\* variant: a command already in the queue is not queued again
add_pending_command_dedup(command, timeout, id) ==
    IF \E k \in 1..Len(pending_commands) : pending_commands[k].command = command
    THEN pending_commands
    ELSE Append(pending_commands,
                [command |-> command, timeout |-> timeout, id |-> id])

\* the dict appended has the keys command and timeout; id stands for the
\* identity of that dict object (the number of the tool call that made it)
add_pending_command(command, timeout, id) ==
    Append(pending_commands,
           [command |-> command, timeout |-> timeout, id |-> id])

(* ------------------- shell_tool.py: the gateway ------------------------ *)

RefusalText(command) == [outcome |-> "refused", command |-> command]

PendingText(command) == [outcome |-> "pending", command |-> command]

ExecutedText(command, output) ==
    [outcome |-> "executed", command |-> command, output |-> output]

\* One subprocess.run call as recorded in exec_log
RunRecord(command, timeout, id, via) ==
    [command |-> command, timeout |-> timeout, id |-> id, via |-> via]

\* variant: the enabled check is left out
execute_shell_command_unguarded(command, timeout, id, proc) ==
    IF confirmation_mode_enabled
    THEN [ret     |-> PendingText(command),
          pending |-> add_pending_command(command, timeout, id),
          runs    |-> <<>>]
    ELSE [ret     |-> ExecutedText(command,
                          execute_command_directly(command, timeout, proc)),
          pending |-> pending_commands,
          runs    |-> <<RunRecord(command, timeout, id, "submit")>>]

\* variant: direct execution does not pass the timeout on (default 300)
execute_shell_command_default_timeout(command, timeout, id, proc) ==
    IF ~shell_commands_enabled
    THEN [ret     |-> RefusalText(command),
          pending |-> pending_commands,
          runs    |-> <<>>]
    ELSE IF confirmation_mode_enabled
    THEN [ret     |-> PendingText(command),
          pending |-> add_pending_command(command, timeout, id),
          runs    |-> <<>>]
    ELSE [ret     |-> ExecutedText(command,
                          execute_command_directly(command, 300, proc)),
          pending |-> pending_commands,
          runs    |-> <<RunRecord(command, 300, id, "submit")>>]

\* variant: an execution that raised is tried once more
execute_shell_command_retry(command, timeout, id, proc) ==
    IF ~shell_commands_enabled
    THEN [ret     |-> RefusalText(command),
          pending |-> pending_commands,
          runs    |-> <<>>]
    ELSE IF confirmation_mode_enabled
    THEN [ret     |-> PendingText(command),
          pending |-> add_pending_command(command, timeout, id),
          runs    |-> <<>>]
    ELSE [ret     |-> ExecutedText(command,
                          execute_command_directly(command, timeout, proc)),
          pending |-> pending_commands,
          runs    |-> IF proc.kind = "error"
                      THEN <<RunRecord(command, timeout, id, "submit"),
                             RunRecord(command, timeout, id, "submit")>>
                      ELSE <<RunRecord(command, timeout, id, "submit")>>]

\* The three-way decision.  The result names the string returned, the queue
\* afterwards and the subprocess.run calls made; proc is what the subprocess
\* does if it is run.
execute_shell_command(command, timeout, id, proc) ==
    IF ~shell_commands_enabled
    THEN [ret     |-> RefusalText(command),
          pending |-> pending_commands,
          runs    |-> <<>>]
    ELSE IF confirmation_mode_enabled
    THEN [ret     |-> PendingText(command),
          pending |-> add_pending_command(command, timeout, id),
          runs    |-> <<>>]
    ELSE [ret     |-> ExecutedText(command,
                          execute_command_directly(command, timeout, proc)),
          pending |-> pending_commands,
          runs    |-> <<RunRecord(command, timeout, id, "submit")>>]

(* ---------------------- main.py: chat messages ------------------------- *)

UserMessage == [role |-> "user", kind |-> "prompt"]

\* free text of the assistant (the agent's answer, or the report of an
\* exception raised by the agent): nothing the gateway produced
AssistantMessage == [role |-> "assistant", kind |-> "text"]

ExecutedMessage(command, output) ==
    [role |-> "assistant", kind |-> "executed",
     command |-> command, output |-> output]

CancelledMessage(command) ==
    [role |-> "assistant", kind |-> "cancelled", command |-> command]

\* "\n\n---\n\n".join(results): the blocks in the order they were produced
ExecutedAllMessage(blocks) ==
    [role |-> "assistant", kind |-> "executed_all", blocks |-> blocks]

\* "\n".join of one line per pending command, in queue order
CancelledAllMessage(pending) ==
    [role |-> "assistant", kind |-> "cancelled_all",
     commands |-> [k \in 1..Len(pending) |-> pending[k].command]]

(* ----------------------- what a subprocess does ------------------------ *)

Procs ==
    { [kind |-> "exit", returncode |-> 0, stdout |-> <<"h", "i">>, stderr |-> <<>>],
      [kind |-> "timeout"],
      [kind |-> "error", error |-> <<"E">>] }

(* ------------------------------ Init ----------------------------------- *)

\* shell_tool.py has been imported and every session_state holds the
\* defaults of main.py lines 34-50; no session has run main() yet.
InitApp ==
    /\ shell_commands_enabled = FALSE
    /\ confirmation_mode_enabled = FALSE
    /\ pending_commands = <<>>
    /\ ss_shell_commands_enabled = [s \in Sessions |-> FALSE]
    /\ ss_confirmation_mode = [s \in Sessions |-> TRUE]
    /\ messages = [s \in Sessions |-> <<>>]
    /\ command_results = [s \in Sessions |-> <<>>]
    /\ pc = [s \in Sessions |-> "new"]
    /\ shown = [s \in Sessions |-> 0]
    /\ ret = [s \in Sessions |-> None]
    /\ exec_log = <<>>
    /\ denied = {}
    /\ ncalls = 0
    /\ nturns = 0

\* no thread is inside a call of shell_tool.py or inside a handler
InitThreads ==
    /\ sub = NoCall
    /\ snapshot = <<>>
    /\ approve = [s \in Sessions |-> NoApproval]

Init ==
    /\ InitApp
    /\ InitThreads
    /\ run_pc = "off"
    /\ run_proc = NoProc
    /\ run_timeout = 0
    /\ run_output = <<>>

(* ----------------------- main.py: script runs -------------------------- *)

\* First page load of a session: a run of main() with no widget event.
LoadPage(s) ==
    /\ pc[s] = "new"
    /\ confirmation_mode_enabled' = set_confirmation_mode(ss_confirmation_mode[s])
    /\ shell_commands_enabled' = set_shell_commands_enabled(ss_shell_commands_enabled[s])
    /\ pc' = [pc EXCEPT ![s] = "idle"]
    /\ shown' = [shown EXCEPT ![s] = Len(get_pending_commands)]
    /\ UNCHANGED <<pending_commands, ss_shell_commands_enabled, ss_confirmation_mode,
                   messages, command_results, ret, history_vars, run_vars, thread_vars>>

\* The operator flips "Enable Shell Command Execution" (lines 291-297), the
\* run goes on through lines 354-355 and redraws the queue.
ToggleShell(s) ==
    /\ pc[s] = "idle"
    /\ ss_shell_commands_enabled' =
          [ss_shell_commands_enabled EXCEPT ![s] = ~ss_shell_commands_enabled[s]]
    /\ shell_commands_enabled' = set_shell_commands_enabled(ss_shell_commands_enabled'[s])
    /\ confirmation_mode_enabled' = set_confirmation_mode(ss_confirmation_mode[s])
    /\ shown' = [shown EXCEPT ![s] = Len(get_pending_commands)]
    /\ UNCHANGED <<pending_commands, ss_confirmation_mode, messages, command_results,
                   pc, ret, history_vars, run_vars, thread_vars>>

\* The operator flips "Require Command Confirmation" (lines 305-313).
ToggleConfirmation(s) ==
    /\ pc[s] = "idle"
    /\ ss_confirmation_mode' =
          [ss_confirmation_mode EXCEPT ![s] = ~ss_confirmation_mode[s]]
    /\ confirmation_mode_enabled' = set_confirmation_mode(ss_confirmation_mode'[s])
    /\ shell_commands_enabled' = set_shell_commands_enabled(ss_shell_commands_enabled[s])
    /\ shown' = [shown EXCEPT ![s] = Len(get_pending_commands)]
    /\ UNCHANGED <<pending_commands, ss_shell_commands_enabled, messages, command_results,
                   pc, ret, history_vars, run_vars, thread_vars>>

\* "Clear Chat" (lines 345-351), then the rerun through lines 354-355.
ClearChat(s) ==
    /\ pc[s] = "idle"
    /\ messages' = [messages EXCEPT ![s] = <<>>]
    /\ command_results' = [command_results EXCEPT ![s] = <<>>]
    /\ pending_commands' = clear_pending_commands
    /\ confirmation_mode_enabled' = set_confirmation_mode(ss_confirmation_mode[s])
    /\ shell_commands_enabled' = set_shell_commands_enabled(ss_shell_commands_enabled[s])
    /\ shown' = [shown EXCEPT ![s] = Len(pending_commands')]
    /\ UNCHANGED <<ss_shell_commands_enabled, ss_confirmation_mode, pc, ret,
                   history_vars, run_vars, thread_vars>>


(* --------- main.py: display_pending_commands, resolve buttons ---------- *)

\* variant: the snapshot is walked from its tail
ConfirmAllRuns_reversed(pending) ==
    [k \in 1..Len(pending) |->
        LET e == pending[Len(pending) + 1 - k]
        IN  RunRecord(e.command, e.timeout, e.id, "confirm_all")]

\* Confirm All (lines 195-201): the commands of the snapshot run one after
\* the other; procs[k] is what the k-th subprocess does.
ConfirmAllRuns(pending) ==
    [k \in 1..Len(pending) |->
        RunRecord(pending[k].command, pending[k].timeout, pending[k].id, "confirm_all")]

ConfirmAllBlocks(pending, procs) ==
    [k \in 1..Len(pending) |->
        [command |-> pending[k].command,
         output  |-> execute_command_directly(pending[k].command,
                                              pending[k].timeout, procs[k])]]

\* variant: the Confirm button hands the command to the gateway again
Confirm_through_gateway(s, i) ==
    /\ pc[s] = "idle"
    /\ i \in 1..shown[s]
    /\ confirmation_mode_enabled' = set_confirmation_mode(ss_confirmation_mode[s])
    /\ shell_commands_enabled' = set_shell_commands_enabled(ss_shell_commands_enabled[s])
    /\ LET pending == get_pending_commands
       IN  IF i <= Len(pending)
           THEN \E proc \in Procs :
                  LET command == pending[i].command
                      timeout == pending[i].timeout
                      r       == execute_shell_command(command, timeout,
                                                       pending[i].id, proc)
                      output  == IF r.ret.outcome = "executed"
                                 THEN r.ret.output ELSE <<>>
                  IN  /\ exec_log' = exec_log \o r.runs
                      /\ command_results' = [command_results EXCEPT ![s] =
                              Append(@, [command |-> command, output |-> output])]
                      /\ messages' = [messages EXCEPT ![s] =
                              Append(@, ExecutedMessage(command, output))]
                      /\ pending_commands' =
                              IF r.ret.outcome = "pending" THEN r.pending
                              ELSE clear_pending_commands
           ELSE UNCHANGED <<exec_log, command_results, messages, pending_commands>>
    /\ shown' = [shown EXCEPT ![s] = Len(pending_commands')]
    /\ UNCHANGED <<ss_shell_commands_enabled, ss_confirmation_mode, pc, ret,
                   denied, ncalls, nturns, run_vars, thread_vars>>

\* The operator presses the Confirm button of row i (lines 155-175).  The
\* click starts a run of main(): lines 354-355, then a fresh snapshot of
\* the queue; the button acts when row i is drawn again in this run.
Confirm(s, i) ==
    /\ pc[s] = "idle"
    /\ i \in 1..shown[s]
    /\ confirmation_mode_enabled' = set_confirmation_mode(ss_confirmation_mode[s])
    /\ shell_commands_enabled' = set_shell_commands_enabled(ss_shell_commands_enabled[s])
    /\ LET pending == get_pending_commands
       IN  IF i <= Len(pending)
           THEN \E proc \in Procs :
                  LET command == pending[i].command
                      timeout == pending[i].timeout
                      output  == execute_command_directly(command, timeout, proc)
                  IN  /\ exec_log' = Append(exec_log,
                              RunRecord(command, timeout, pending[i].id, "confirm"))
                      /\ command_results' = [command_results EXCEPT ![s] =
                              Append(@, [command |-> command, output |-> output])]
                      /\ messages' = [messages EXCEPT ![s] =
                              Append(@, ExecutedMessage(command, output))]
                      /\ pending_commands' = clear_pending_commands
           ELSE UNCHANGED <<exec_log, command_results, messages, pending_commands>>
    /\ shown' = [shown EXCEPT ![s] = Len(pending_commands')]
    /\ UNCHANGED <<ss_shell_commands_enabled, ss_confirmation_mode, pc, ret,
                   denied, ncalls, nturns, run_vars, thread_vars>>

\* The Cancel button of row i (lines 178-186).
Cancel(s, i) ==
    /\ pc[s] = "idle"
    /\ i \in 1..shown[s]
    /\ confirmation_mode_enabled' = set_confirmation_mode(ss_confirmation_mode[s])
    /\ shell_commands_enabled' = set_shell_commands_enabled(ss_shell_commands_enabled[s])
    /\ LET pending == get_pending_commands
       IN  IF i <= Len(pending)
           THEN /\ messages' = [messages EXCEPT ![s] =
                        Append(@, CancelledMessage(pending[i].command))]
                /\ pending_commands' = clear_pending_commands
                /\ denied' = denied \cup {pending[i].id}
           ELSE UNCHANGED <<messages, pending_commands, denied>>
    /\ shown' = [shown EXCEPT ![s] = Len(pending_commands')]
    /\ UNCHANGED <<ss_shell_commands_enabled, ss_confirmation_mode, command_results,
                   pc, ret, exec_log, ncalls, nturns, run_vars, thread_vars>>

\* "Confirm All" (lines 189-208), drawn when the snapshot has several rows.
ConfirmAll(s) ==
    /\ pc[s] = "idle"
    /\ shown[s] > 1
    /\ confirmation_mode_enabled' = set_confirmation_mode(ss_confirmation_mode[s])
    /\ shell_commands_enabled' = set_shell_commands_enabled(ss_shell_commands_enabled[s])
    /\ LET pending == get_pending_commands
       IN  IF Len(pending) > 1
           THEN \E procs \in [1..Len(pending) -> Procs] :
                  /\ exec_log' = exec_log \o ConfirmAllRuns(pending)
                  /\ messages' = [messages EXCEPT ![s] =
                          Append(@, ExecutedAllMessage(ConfirmAllBlocks(pending, procs)))]
                  /\ pending_commands' = clear_pending_commands
           ELSE UNCHANGED <<exec_log, messages, pending_commands>>
    /\ shown' = [shown EXCEPT ![s] = Len(pending_commands')]
    /\ UNCHANGED <<ss_shell_commands_enabled, ss_confirmation_mode, command_results,
                   pc, ret, denied, ncalls, nturns, run_vars, thread_vars>>

\* "Cancel All" (lines 210-218).
CancelAll(s) ==
    /\ pc[s] = "idle"
    /\ shown[s] > 1
    /\ confirmation_mode_enabled' = set_confirmation_mode(ss_confirmation_mode[s])
    /\ shell_commands_enabled' = set_shell_commands_enabled(ss_shell_commands_enabled[s])
    /\ LET pending == get_pending_commands
       IN  IF Len(pending) > 1
           THEN /\ messages' = [messages EXCEPT ![s] =
                        Append(@, CancelledAllMessage(pending))]
                /\ pending_commands' = clear_pending_commands
                /\ denied' = denied \cup {pending[k].id : k \in 1..Len(pending)}
           ELSE UNCHANGED <<messages, pending_commands, denied>>
    /\ shown' = [shown EXCEPT ![s] = Len(pending_commands')]
    /\ UNCHANGED <<ss_shell_commands_enabled, ss_confirmation_mode, command_results,
                   pc, ret, exec_log, ncalls, nturns, run_vars, thread_vars>>

(* -------------------- main.py: the chat input and the agent ------------ *)

\* variant: the chat input takes the prompt whatever the queue holds
Prompt_ungated(s) ==
    /\ pc[s] = "idle"
    /\ shown[s] = 0
    /\ nturns + ncalls < MaxWork
    /\ confirmation_mode_enabled' = set_confirmation_mode(ss_confirmation_mode[s])
    /\ shell_commands_enabled' = set_shell_commands_enabled(ss_shell_commands_enabled[s])
    /\ messages' = [messages EXCEPT ![s] = Append(@, UserMessage)]
    /\ pc' = [pc EXCEPT ![s] = "agent"]
    /\ nturns' = nturns + 1
    /\ UNCHANGED <<pending_commands, ss_shell_commands_enabled, ss_confirmation_mode,
                   command_results, shown, ret, exec_log, denied, ncalls, run_vars,
                   thread_vars>>

\* The operator sends a prompt (lines 364-394).  The chat input is enabled
\* on a page drawn without pending rows; the run accepts the prompt when
\* its own snapshot of the queue is empty, and then calls the agent.
Prompt(s) ==
    /\ pc[s] = "idle"
    /\ shown[s] = 0
    /\ nturns + ncalls < MaxWork
    /\ confirmation_mode_enabled' = set_confirmation_mode(ss_confirmation_mode[s])
    /\ shell_commands_enabled' = set_shell_commands_enabled(ss_shell_commands_enabled[s])
    /\ IF get_pending_commands = <<>>
       THEN /\ messages' = [messages EXCEPT ![s] = Append(@, UserMessage)]
            /\ pc' = [pc EXCEPT ![s] = "agent"]
            /\ nturns' = nturns + 1
            /\ UNCHANGED shown
       ELSE /\ shown' = [shown EXCEPT ![s] = Len(get_pending_commands)]
            /\ UNCHANGED <<messages, pc, nturns>>
    /\ UNCHANGED <<pending_commands, ss_shell_commands_enabled, ss_confirmation_mode,
                   command_results, ret, exec_log, denied, ncalls, run_vars, thread_vars>>

\* The agent of session s calls the tool: submit(command, timeout).
Submit(s, command, timeout) ==
    /\ pc[s] = "agent"
    /\ nturns + ncalls < MaxWork
    /\ \E proc \in Procs :
         LET r == execute_shell_command(command, timeout, ncalls + 1, proc)
         IN  /\ ret' = [ret EXCEPT ![s] = r.ret]
             /\ pending_commands' = r.pending
             /\ exec_log' = exec_log \o r.runs
    /\ ncalls' = ncalls + 1
    /\ UNCHANGED <<shell_commands_enabled, confirmation_mode_enabled,
                   ss_shell_commands_enabled, ss_confirmation_mode, messages,
                   command_results, pc, shown, denied, nturns, run_vars, thread_vars>>

\* run_pentest_query returns (lines 397-415): the answer joins the history
\* and the script reruns when commands are pending.
EndTurn(s) ==
    /\ pc[s] = "agent"
    /\ messages' = [messages EXCEPT ![s] = Append(@, AssistantMessage)]
    /\ pc' = [pc EXCEPT ![s] = "idle"]
    /\ ret' = [ret EXCEPT ![s] = None]
    /\ IF get_pending_commands # <<>>
       THEN /\ confirmation_mode_enabled' = set_confirmation_mode(ss_confirmation_mode[s])
            /\ shell_commands_enabled' = set_shell_commands_enabled(ss_shell_commands_enabled[s])
            /\ shown' = [shown EXCEPT ![s] = Len(get_pending_commands)]
       ELSE UNCHANGED <<confirmation_mode_enabled, shell_commands_enabled, shown>>
    /\ UNCHANGED <<pending_commands, ss_shell_commands_enabled, ss_confirmation_mode,
                   command_results, history_vars, run_vars, thread_vars>>

\* run_pentest_query raises (lines 417-421): the error text joins the
\* history and no rerun follows.
AgentError(s) ==
    /\ pc[s] = "agent"
    /\ messages' = [messages EXCEPT ![s] = Append(@, AssistantMessage)]
    /\ pc' = [pc EXCEPT ![s] = "idle"]
    /\ ret' = [ret EXCEPT ![s] = None]
    /\ UNCHANGED <<gateway_vars, ss_shell_commands_enabled, ss_confirmation_mode,
                   command_results, shown, history_vars, run_vars, thread_vars>>

(* --------------------------- specification ----------------------------- *)

Next ==
    \/ \E s \in Sessions : LoadPage(s)
    \/ \E s \in Sessions : ToggleShell(s)
    \/ \E s \in Sessions : ToggleConfirmation(s)
    \/ \E s \in Sessions : ClearChat(s)
    \/ \E s \in Sessions : \E i \in 1..MaxWork : Confirm(s, i)
    \/ \E s \in Sessions : \E i \in 1..MaxWork : Cancel(s, i)
    \/ \E s \in Sessions : ConfirmAll(s)
    \/ \E s \in Sessions : CancelAll(s)
    \/ \E s \in Sessions : Prompt(s)
    \/ \E s \in Sessions : \E in \in SubmitInputs :
          Submit(s, in.command, in.timeout)
    \/ \E s \in Sessions : EndTurn(s)
    \/ \E s \in Sessions : AgentError(s)

Spec == Init /\ [][Next]_vars


(* ------------- the execution primitive on its own (SpecRun) ------------ *)

\* n copies of the character ch
Fill(ch, n) == [k \in 1..n |-> ch]

\* captured lengths around the cap, alone and with the 16-character divider
StdoutLens ==
    {0} \cup ((MAX_OUTPUT_CHARACTERS - Slack)..(MAX_OUTPUT_CHARACTERS + Slack))
        \cup ((MAX_OUTPUT_CHARACTERS - Len(STDERR_DIVIDER) - Slack - 1)
                ..(MAX_OUTPUT_CHARACTERS - Len(STDERR_DIVIDER)))

StderrLens ==
    (0..(Slack + 1)) \cup {MAX_OUTPUT_CHARACTERS, MAX_OUTPUT_CHARACTERS + 1}

RunProcs ==
    { [kind |-> "exit", returncode |-> rc,
       stdout |-> Fill(co, no), stderr |-> Fill(ce, ne)] :
         rc \in {0, 1}, co \in {"o", " "}, no \in StdoutLens,
         ce \in {"e", "\n"}, ne \in StderrLens }
    \cup { [kind |-> "timeout"], [kind |-> "error", error |-> <<"E">>] }

RunTimeouts == {10, 300}

InitRun ==
    /\ InitApp
    /\ InitThreads
    /\ run_pc = "ready"
    /\ run_proc \in RunProcs
    /\ run_timeout \in RunTimeouts
    /\ run_output = <<>>

\* one call execute_command_directly(command, timeout); the text returned
\* does not depend on the command string
Run ==
    /\ run_pc = "ready"
    /\ run_output' = execute_command_directly("id", run_timeout, run_proc)
    /\ run_pc' = "done"
    /\ UNCHANGED <<gateway_vars, session_vars, history_vars, run_proc, run_timeout,
                   thread_vars>>

NextRun == Run

SpecRun == InitRun /\ [][NextRun]_vars


(* ------------- the statements of concurrent threads -------------------- *)

\* Streamlit runs the script of every session in a thread of its own, and
\* the agent calls the tool inside the script thread of its session, so the
\* functions of shell_tool.py and the statements of a button handler of
\* main.py interleave.  Here every call of a state accessor is a step, the
\* gateway is two steps (its two reads of the flags) and a handler is one
\* step for each of its effects.  The session bookkeeping of the script-run
\* specification (pc, shown, ret) is not used.

FlagPair == <<shell_commands_enabled, confirmation_mode_enabled>>

\* the flag pairs that held since the submit in flight started
HeldWith(pair) ==
    IF sub.pc = "line129" THEN [sub EXCEPT !.held = @ \cup {pair}] ELSE sub

\* variant: switching the confirmation mode off flushes the queue
CallSetConfirmationMode_flush(enabled) ==
    /\ confirmation_mode_enabled' = set_confirmation_mode(enabled)
    /\ pending_commands' = IF enabled THEN pending_commands ELSE <<>>
    /\ sub' = HeldWith(<<shell_commands_enabled, confirmation_mode_enabled'>>)
    /\ UNCHANGED <<shell_commands_enabled, session_vars, history_vars,
                   run_vars, snapshot, approve>>

\* a thread calls set_confirmation_mode(enabled) (main.py line 354)
CallSetConfirmationMode(enabled) ==
    /\ confirmation_mode_enabled' = set_confirmation_mode(enabled)
    /\ sub' = HeldWith(<<shell_commands_enabled, confirmation_mode_enabled'>>)
    /\ UNCHANGED <<shell_commands_enabled, pending_commands, session_vars,
                   history_vars, run_vars, snapshot, approve>>

\* a thread calls set_shell_commands_enabled(enabled) (main.py line 355)
CallSetShellCommandsEnabled(enabled) ==
    /\ shell_commands_enabled' = set_shell_commands_enabled(enabled)
    /\ sub' = HeldWith(<<shell_commands_enabled', confirmation_mode_enabled>>)
    /\ UNCHANGED <<confirmation_mode_enabled, pending_commands, session_vars,
                   history_vars, run_vars, snapshot, approve>>

\* a thread calls clear_pending_commands() (Clear Chat, main.py line 350)
CallClearPendingCommands ==
    /\ pending_commands' = clear_pending_commands
    /\ UNCHANGED <<shell_commands_enabled, confirmation_mode_enabled, session_vars,
                   history_vars, run_vars, thread_vars>>

\* the gateway at line 130 calls add_pending_command(command, timeout)
CallAddPendingCommand(command, timeout) ==
    /\ ncalls < MaxWork
    /\ ncalls' = ncalls + 1
    /\ pending_commands' = add_pending_command(command, timeout, ncalls + 1)
    /\ UNCHANGED <<shell_commands_enabled, confirmation_mode_enabled, session_vars,
                   exec_log, denied, nturns, run_vars, thread_vars>>

\* execute_shell_command, first read (line 120): the refusal is returned,
\* or the call goes on to line 129
SubmitLine120(command, timeout) ==
    /\ sub.pc = "idle"
    /\ ncalls < MaxWork
    /\ ncalls' = ncalls + 1
    /\ sub' = IF ~shell_commands_enabled
              THEN [NoCall EXCEPT !.command = command, !.timeout = timeout,
                                  !.ret = RefusalText(command)]
              ELSE [NoCall EXCEPT !.pc = "line129", !.command = command,
                                  !.timeout = timeout, !.held = {FlagPair}]
    /\ UNCHANGED <<gateway_vars, session_vars, exec_log, denied, nturns,
                   run_vars, snapshot, approve>>

\* execute_shell_command from line 129 on: the second read decides between
\* the queue and the direct execution
execute_shell_command_line129(command, timeout, id, proc) ==
    IF confirmation_mode_enabled
    THEN [ret     |-> PendingText(command),
          pending |-> add_pending_command(command, timeout, id),
          runs    |-> <<>>]
    ELSE [ret     |-> ExecutedText(command,
                          execute_command_directly(command, timeout, proc)),
          pending |-> pending_commands,
          runs    |-> <<RunRecord(command, timeout, id, "submit")>>]

SubmitLine129 ==
    /\ sub.pc = "line129"
    /\ \E proc \in Procs :
         LET r == execute_shell_command_line129(sub.command, sub.timeout, ncalls, proc)
         IN  /\ sub' = [sub EXCEPT !.pc = "idle", !.held = {}, !.ret = r.ret]
             /\ pending_commands' = r.pending
             /\ exec_log' = exec_log \o r.runs
    /\ UNCHANGED <<shell_commands_enabled, confirmation_mode_enabled, session_vars,
                   denied, ncalls, nturns, run_vars, snapshot, approve>>

\* a caller takes the list get_pending_commands() returns: a new list whose
\* items are the dict objects of the queue (id names the object)
CallGetPendingCommands ==
    /\ snapshot' = get_pending_commands
    /\ UNCHANGED <<gateway_vars, session_vars, history_vars, run_vars, sub, approve>>

\* a dict object the caller made itself
CallerEntry == [command |-> "rm", timeout |-> 1, id |-> 0]

\* the caller does returned.append(entry)
SnapshotAppend ==
    /\ Len(snapshot) < MaxWork
    /\ snapshot' = Append(snapshot, CallerEntry)
    /\ UNCHANGED <<gateway_vars, session_vars, history_vars, run_vars, sub, approve>>

\* the caller does del returned[k]
SnapshotRemove(k) ==
    /\ k \in 1..Len(snapshot)
    /\ snapshot' = SubSeq(snapshot, 1, k - 1) \o SubSeq(snapshot, k + 1, Len(snapshot))
    /\ UNCHANGED <<gateway_vars, session_vars, history_vars, run_vars, sub, approve>>

\* the caller does returned.reverse()
SnapshotReverse ==
    /\ Len(snapshot) > 1
    /\ snapshot' = [k \in 1..Len(snapshot) |-> snapshot[Len(snapshot) + 1 - k]]
    /\ UNCHANGED <<gateway_vars, session_vars, history_vars, run_vars, sub, approve>>

\* list after an item assignment on the dict object id: every list that
\* holds the object shows the new value
WithItem(list, id, key, value) ==
    [j \in 1..Len(list) |->
        IF list[j].id = id
        THEN IF key = "command" THEN [list[j] EXCEPT !.command = value]
             ELSE [list[j] EXCEPT !.timeout = value]
        ELSE list[j]]

\* the caller does returned[k]["command"] = ...
SnapshotSetCommand(k) ==
    /\ k \in 1..Len(snapshot)
    /\ snapshot[k].command # CallerEntry.command
    /\ snapshot' = WithItem(snapshot, snapshot[k].id, "command", CallerEntry.command)
    /\ pending_commands' =
          WithItem(pending_commands, snapshot[k].id, "command", CallerEntry.command)
    /\ UNCHANGED <<shell_commands_enabled, confirmation_mode_enabled, session_vars,
                   history_vars, run_vars, sub, approve>>

\* the caller does returned[k]["timeout"] = ...
SnapshotSetTimeout(k) ==
    /\ k \in 1..Len(snapshot)
    /\ snapshot[k].timeout # CallerEntry.timeout
    /\ snapshot' = WithItem(snapshot, snapshot[k].id, "timeout", CallerEntry.timeout)
    /\ pending_commands' =
          WithItem(pending_commands, snapshot[k].id, "timeout", CallerEntry.timeout)
    /\ UNCHANGED <<shell_commands_enabled, confirmation_mode_enabled, session_vars,
                   history_vars, run_vars, sub, approve>>

\* the dict objects in the snapshot a script run takes at line 130
SnapshotIds == {get_pending_commands[k].id : k \in 1..Len(get_pending_commands)}

\* variant: the handler empties the queue before it runs the command
ConfirmRun_clears_first(s, i) ==
    /\ approve[s].pc = "idle"
    /\ i \in 1..Len(get_pending_commands)
    /\ \E proc \in Procs :
         LET e == get_pending_commands[i]
         IN  /\ exec_log' = Append(exec_log,
                     RunRecord(e.command, e.timeout, e.id, "confirm"))
             /\ approve' = [approve EXCEPT ![s] =
                    [pc |-> "executed", id |-> e.id, seen |-> SnapshotIds,
                     command |-> e.command,
                     output |-> execute_command_directly(e.command,
                                                         e.timeout, proc)]]
    /\ pending_commands' = clear_pending_commands
    /\ UNCHANGED <<shell_commands_enabled, confirmation_mode_enabled, session_vars,
                   denied, ncalls, nturns, run_vars, sub, snapshot>>

\* Confirm on row i, lines 130-158: the run takes its snapshot and the
\* handler runs the command of row i; the step is the return of
\* execute_command_directly
ConfirmRun(s, i) ==
    /\ approve[s].pc = "idle"
    /\ i \in 1..Len(get_pending_commands)
    /\ \E proc \in Procs :
         LET e == get_pending_commands[i]
         IN  /\ exec_log' = Append(exec_log,
                     RunRecord(e.command, e.timeout, e.id, "confirm"))
             /\ approve' = [approve EXCEPT ![s] =
                    [pc |-> "executed", id |-> e.id, seen |-> SnapshotIds,
                     command |-> e.command,
                     output |-> execute_command_directly(e.command,
                                                         e.timeout, proc)]]
    /\ UNCHANGED <<gateway_vars, session_vars, denied, ncalls, nturns,
                   run_vars, sub, snapshot>>

\* lines 161-171: the result joins command_results and the chat history
ConfirmRecord(s) ==
    /\ approve[s].pc = "executed"
    /\ command_results' = [command_results EXCEPT ![s] =
          Append(@, [command |-> approve[s].command, output |-> approve[s].output])]
    /\ messages' = [messages EXCEPT ![s] =
          Append(@, ExecutedMessage(approve[s].command, approve[s].output))]
    /\ approve' = [approve EXCEPT ![s].pc = "recorded"]
    /\ UNCHANGED <<gateway_vars, ss_shell_commands_enabled, ss_confirmation_mode,
                   pc, shown, ret, history_vars, run_vars, sub, snapshot>>

\* lines 173-175: the queue is cleared, the handler is over
ConfirmClear(s) ==
    /\ approve[s].pc = "recorded"
    /\ pending_commands' = clear_pending_commands
    /\ approve' = [approve EXCEPT ![s] = NoApproval]
    /\ UNCHANGED <<shell_commands_enabled, confirmation_mode_enabled, session_vars,
                   history_vars, run_vars, sub, snapshot>>

\* Cancel on row i, lines 130-183: the notice joins the chat history
CancelRecord(s, i) ==
    /\ approve[s].pc = "idle"
    /\ i \in 1..Len(get_pending_commands)
    /\ LET e == get_pending_commands[i]
       IN  /\ messages' = [messages EXCEPT ![s] =
                  Append(@, CancelledMessage(e.command))]
           /\ approve' = [approve EXCEPT ![s] =
                  [pc |-> "cancelled", id |-> e.id, seen |-> SnapshotIds,
                   command |-> e.command]]
    /\ UNCHANGED <<gateway_vars, ss_shell_commands_enabled, ss_confirmation_mode,
                   command_results, pc, shown, ret, history_vars, run_vars,
                   sub, snapshot>>

\* lines 185-186: the queue is cleared, the handler is over
CancelClear(s) ==
    /\ approve[s].pc = "cancelled"
    /\ pending_commands' = clear_pending_commands
    /\ denied' = denied \cup {approve[s].id}
    /\ approve' = [approve EXCEPT ![s] = NoApproval]
    /\ UNCHANGED <<shell_commands_enabled, confirmation_mode_enabled, session_vars,
                   exec_log, ncalls, nturns, run_vars, sub, snapshot>>

\* Confirm All, lines 130-201: the loop has run every command of the
\* snapshot; the step is the return of the last execute_command_directly
ConfirmAllRun(s) ==
    /\ approve[s].pc = "idle"
    /\ Len(get_pending_commands) > 1
    /\ LET pending == get_pending_commands
       IN  \E procs \in [1..Len(pending) -> Procs] :
             /\ exec_log' = exec_log \o ConfirmAllRuns(pending)
             /\ approve' = [approve EXCEPT ![s] =
                    [pc |-> "executed_all", ids |-> SnapshotIds,
                     blocks |-> ConfirmAllBlocks(pending, procs)]]
    /\ UNCHANGED <<gateway_vars, session_vars, denied, ncalls, nturns,
                   run_vars, sub, snapshot>>

\* lines 203-206: the joined results join the chat history
ConfirmAllRecord(s) ==
    /\ approve[s].pc = "executed_all"
    /\ messages' = [messages EXCEPT ![s] =
          Append(@, ExecutedAllMessage(approve[s].blocks))]
    /\ approve' = [approve EXCEPT ![s].pc = "recorded_all"]
    /\ UNCHANGED <<gateway_vars, ss_shell_commands_enabled, ss_confirmation_mode,
                   command_results, pc, shown, ret, history_vars, run_vars,
                   sub, snapshot>>

\* lines 207-208
ConfirmAllClear(s) ==
    /\ approve[s].pc = "recorded_all"
    /\ pending_commands' = clear_pending_commands
    /\ approve' = [approve EXCEPT ![s] = NoApproval]
    /\ UNCHANGED <<shell_commands_enabled, confirmation_mode_enabled, session_vars,
                   history_vars, run_vars, sub, snapshot>>

\* Cancel All, lines 130-216: the notice joins the chat history
CancelAllRecord(s) ==
    /\ approve[s].pc = "idle"
    /\ Len(get_pending_commands) > 1
    /\ LET pending == get_pending_commands
       IN  /\ messages' = [messages EXCEPT ![s] =
                  Append(@, CancelledAllMessage(pending))]
           /\ approve' = [approve EXCEPT ![s] =
                  [pc |-> "cancelled_all", ids |-> SnapshotIds]]
    /\ UNCHANGED <<gateway_vars, ss_shell_commands_enabled, ss_confirmation_mode,
                   command_results, pc, shown, ret, history_vars, run_vars,
                   sub, snapshot>>

\* lines 217-218
CancelAllClear(s) ==
    /\ approve[s].pc = "cancelled_all"
    /\ pending_commands' = clear_pending_commands
    /\ denied' = denied \cup approve[s].ids
    /\ approve' = [approve EXCEPT ![s] = NoApproval]
    /\ UNCHANGED <<shell_commands_enabled, confirmation_mode_enabled, session_vars,
                   exec_log, ncalls, nturns, run_vars, sub, snapshot>>

\* the gateway and the setters in concurrent threads
NextGateway ==
    \/ \E enabled \in BOOLEAN : CallSetConfirmationMode(enabled)
    \/ \E enabled \in BOOLEAN : CallSetShellCommandsEnabled(enabled)
    \/ CallClearPendingCommands
    \/ \E in \in SubmitInputs : SubmitLine120(in.command, in.timeout)
    \/ SubmitLine129

SpecGateway == Init /\ [][NextGateway]_vars

\* the queue, and a caller working on a list it was handed
NextSnapshot ==
    \/ \E in \in SubmitInputs : CallAddPendingCommand(in.command, in.timeout)
    \/ CallClearPendingCommands
    \/ CallGetPendingCommands
    \/ SnapshotAppend
    \/ \E k \in 1..MaxWork : SnapshotRemove(k)
    \/ SnapshotReverse
    \/ \E k \in 1..MaxWork : SnapshotSetCommand(k)
    \/ \E k \in 1..MaxWork : SnapshotSetTimeout(k)

SpecSnapshot == Init /\ [][NextSnapshot]_vars

\* no script run is inside a button handler
NoHandler == \A s \in Sessions : approve[s].pc = "idle"

\* the queue and the button handlers, statement by statement, one operator
\* at a time: a handler starts when no other handler is in flight
NextHandlers ==
    \/ \E in \in SubmitInputs : CallAddPendingCommand(in.command, in.timeout)
    \/ CallClearPendingCommands
    \/ NoHandler /\ \E s \in Sessions : \E i \in 1..MaxWork : ConfirmRun(s, i)
    \/ \E s \in Sessions : ConfirmRecord(s)
    \/ \E s \in Sessions : ConfirmClear(s)
    \/ NoHandler /\ \E s \in Sessions : \E i \in 1..MaxWork : CancelRecord(s, i)
    \/ \E s \in Sessions : CancelClear(s)
    \/ NoHandler /\ \E s \in Sessions : ConfirmAllRun(s)
    \/ \E s \in Sessions : ConfirmAllRecord(s)
    \/ \E s \in Sessions : ConfirmAllClear(s)
    \/ NoHandler /\ \E s \in Sessions : CancelAllRecord(s)
    \/ \E s \in Sessions : CancelAllClear(s)

SpecHandlers == Init /\ [][NextHandlers]_vars

\* two operators: the Confirm and Confirm All handlers of the sessions in
\* concurrent script threads
NextOperators ==
    \/ \E in \in SubmitInputs : CallAddPendingCommand(in.command, in.timeout)
    \/ \E s \in Sessions : \E i \in 1..MaxWork : ConfirmRun(s, i)
    \/ \E s \in Sessions : ConfirmRecord(s)
    \/ \E s \in Sessions : ConfirmClear(s)
    \/ \E s \in Sessions : ConfirmAllRun(s)
    \/ \E s \in Sessions : ConfirmAllRecord(s)
    \/ \E s \in Sessions : ConfirmAllClear(s)

SpecOperators == Init /\ [][NextOperators]_vars


(* ------------------------------ claims --------------------------------- *)

\* the queue without its i-th entry
WithoutEntry(pending, i) ==
    [k \in 1..(Len(pending) - 1) |-> IF k < i THEN pending[k] ELSE pending[k + 1]]

\* the entries a step appended to a sequence
Added(old, new) == SubSeq(new, Len(old) + 1, Len(new))

LastOf(seq) == seq[Len(seq)]

\* C1: whenever execution_enabled is false, no command reaches the shell by
\* any path, neither through submit nor through Confirm / Confirm All on
\* commands queued earlier: every step that runs a subprocess runs it while
\* shell_commands_enabled is true.
C1_NoShellWhileDisabled ==
    [][exec_log' # exec_log => shell_commands_enabled']_vars

\* C2: P1 refusal.  A submit made while execution_enabled is false returns
\* the refusal, runs no subprocess and leaves the pending queue as it was,
\* whatever confirmation_required is.
C2_Refusal ==
    [][\A s \in Sessions : \A in \in SubmitInputs :
          (Submit(s, in.command, in.timeout) /\ ~shell_commands_enabled)
          => /\ ret'[s].outcome = "refused"
             /\ ret'[s].command = in.command
             /\ exec_log' = exec_log
             /\ pending_commands' = pending_commands]_vars

\* a refusal was returned while commands were pending
C2_Witness ==
    \E s \in Sessions :
       /\ ret[s].outcome = "refused"
       /\ pending_commands # <<>>
       /\ ~shell_commands_enabled

\* C3: P2 queueing.  A submit made while both flags are true runs nothing
\* and grows the queue by exactly one entry at the tail, carrying the given
\* command and timeout; the earlier entries keep their places, also when the
\* same command is already queued.
C3_Queueing ==
    [][\A s \in Sessions : \A in \in SubmitInputs :
          (Submit(s, in.command, in.timeout)
             /\ shell_commands_enabled /\ confirmation_mode_enabled)
          => /\ exec_log' = exec_log
             /\ Len(pending_commands') = Len(pending_commands) + 1
             /\ SubSeq(pending_commands', 1, Len(pending_commands)) = pending_commands
             /\ LastOf(pending_commands').command = in.command
             /\ LastOf(pending_commands').timeout = in.timeout
             /\ ret'[s].outcome = "pending"
             /\ ret'[s].command = in.command]_vars

\* the same command is queued twice, as two entries
C3_Witness ==
    /\ Len(pending_commands) = 2
    /\ pending_commands[1].command = pending_commands[2].command
    /\ pending_commands[1].timeout = pending_commands[2].timeout
    /\ pending_commands[1].id # pending_commands[2].id

\* C4: P3 immediate execution.  A submit made while execution_enabled is true
\* and confirmation_required is false runs the subprocess exactly once with
\* the given command and timeout and leaves the pending queue as it was, also
\* when the queue holds entries.
C4_Immediate ==
    [][\A s \in Sessions : \A in \in SubmitInputs :
          (Submit(s, in.command, in.timeout)
             /\ shell_commands_enabled /\ ~confirmation_mode_enabled)
          => /\ Len(exec_log') = Len(exec_log) + 1
             /\ SubSeq(exec_log', 1, Len(exec_log)) = exec_log
             /\ LastOf(exec_log').command = in.command
             /\ LastOf(exec_log').timeout = in.timeout
             /\ pending_commands' = pending_commands
             /\ ret'[s].outcome = "executed"
             /\ ret'[s].command = in.command]_vars

\* a command was executed at once, with timeout 10, while another was pending
C4_Witness ==
    \E s \in Sessions :
       /\ ret[s].outcome = "executed"
       /\ pending_commands # <<>>
       /\ exec_log # <<>>
       /\ LastOf(exec_log).via = "submit"
       /\ LastOf(exec_log).timeout = 10

\* C5: single approve is granular.  With two or more pending entries,
\* Confirm on row i runs exactly entry i once and removes that entry; every
\* other entry stays pending in its original order.
C5_SingleApproveGranular ==
    [][\A s \in Sessions : \A i \in 1..MaxWork :
          (Confirm(s, i) /\ i <= Len(pending_commands) /\ Len(pending_commands) >= 2)
          => /\ Len(exec_log') = Len(exec_log) + 1
             /\ LastOf(exec_log').id = pending_commands[i].id
             /\ pending_commands' = WithoutEntry(pending_commands, i)]_vars

\* the queue holds its entries in the order they were submitted
FifoOrder ==
    \A j, k \in 1..Len(pending_commands) :
       j < k => pending_commands[j].id < pending_commands[k].id

\* C6: P5 FIFO integrity.  The queue keeps submission order, and Confirm All
\* on n >= 2 entries runs one subprocess per entry in queue order, appends
\* one history entry whose blocks are in that same order and leaves the
\* queue empty.
C6_ConfirmAllFifo ==
    /\ []FifoOrder
    /\ [][\A s \in Sessions :
            (ConfirmAll(s) /\ Len(pending_commands) > 1)
            => LET n   == Len(pending_commands)
                   new == Added(exec_log, exec_log')
                   m   == LastOf(messages'[s])
               IN  /\ Len(new) = n
                   /\ \A k \in 1..n :
                        /\ new[k].id = pending_commands[k].id
                        /\ new[k].command = pending_commands[k].command
                        /\ new[k].timeout = pending_commands[k].timeout
                   /\ Len(messages'[s]) = Len(messages[s]) + 1
                   /\ m.kind = "executed_all"
                   /\ Len(m.blocks) = n
                   /\ \A k \in 1..n : m.blocks[k].command = pending_commands[k].command
                   /\ pending_commands' = <<>>]_vars

\* Confirm All has run two different commands, the queue is empty
C6_Witness ==
    /\ pending_commands = <<>>
    /\ Len(exec_log) = 2
    /\ exec_log[1].via = "confirm_all"
    /\ exec_log[1].command # exec_log[2].command
    /\ \E s \in Sessions : \E k \in 1..Len(messages[s]) :
          messages[s][k].kind = "executed_all"

QueuedIds(pending) == {pending[k].id : k \in 1..Len(pending)}

C8_InitialDefaults ==
    (\A s \in Sessions : pc[s] = "new")
    => /\ shell_commands_enabled = FALSE
       /\ confirmation_mode_enabled = TRUE
       /\ pending_commands = <<>>

\* C9 as stated: Clear Chat resets the gateway state to the defaults.
C9_ClearResetsToDefaults ==
    [][\A s \in Sessions :
          ClearChat(s)
          => /\ shell_commands_enabled' = FALSE
             /\ confirmation_mode_enabled' = TRUE
             /\ pending_commands' = <<>>]_vars

\* C9 as amended: Clear Chat empties the queue and the session's history and
\* does not reset the flags: afterwards both flags equal the session's
\* sidebar settings, which Clear Chat leaves as they were.
C9_ClearKeepsSettings ==
    [][\A s \in Sessions :
          ClearChat(s)
          => /\ pending_commands' = <<>>
             /\ messages'[s] = <<>>
             /\ ss_shell_commands_enabled'[s] = ss_shell_commands_enabled[s]
             /\ ss_confirmation_mode'[s] = ss_confirmation_mode[s]
             /\ shell_commands_enabled' = ss_shell_commands_enabled[s]
             /\ confirmation_mode_enabled' = ss_confirmation_mode[s]]_vars

\* the only session that ever ran has had a turn with an immediate
\* execution, its history is empty again, and execution is still enabled
\* without confirmation
C9_Witness ==
    \E s \in Sessions :
       /\ pc[s] = "idle"
       /\ \A t \in Sessions \ {s} : pc[t] = "new"
       /\ nturns > 0
       /\ exec_log # <<>>
       /\ messages[s] = <<>>
       /\ pending_commands = <<>>
       /\ shell_commands_enabled
       /\ ~confirmation_mode_enabled


(* ------------------- claims on the execution primitive ----------------- *)

DigitValue(ch) ==
    CASE ch = "0" -> 0 [] ch = "1" -> 1 [] ch = "2" -> 2 [] ch = "3" -> 3
      [] ch = "4" -> 4 [] ch = "5" -> 5 [] ch = "6" -> 6 [] ch = "7" -> 7
      [] ch = "8" -> 8 [] ch = "9" -> 9 [] OTHER -> -1

\* the number a run of decimal digits denotes, -1 when it is not one
RECURSIVE DecimalValue(_)
DecimalValue(text) ==
    IF Len(text) = 0 THEN -1
    ELSE IF DigitValue(LastOf(text)) < 0 THEN -1
    ELSE IF Len(text) = 1 THEN DigitValue(text[1])
    ELSE LET front == DecimalValue(SubSeq(text, 1, Len(text) - 1))
         IN  IF front < 0 THEN -1 ELSE front * 10 + DigitValue(LastOf(text))

\* the single concatenated text of the captured streams
CapturedText ==
    IF run_proc.stdout # <<>> /\ run_proc.stderr # <<>>
    THEN run_proc.stdout \o STDERR_DIVIDER \o run_proc.stderr
    ELSE run_proc.stdout \o run_proc.stderr

\* the line that reports a nonzero exit code, empty for exit code 0
ExitCodeLine ==
    IF run_proc.returncode # 0
    THEN EXIT_HEAD \o IntStr(run_proc.returncode) \o EXIT_TAIL
    ELSE <<>>

IsBlank(text) == \A k \in 1..Len(text) : text[k] \in Whitespace

\* the text after the exit-code line is exactly the captured text
ReturnedUnmodified ==
    run_output = ExitCodeLine \o CapturedText

\* the text after the exit-code line is the first MAX_OUTPUT_CHARACTERS
\* characters of the captured text, then a marker that ends by stating the
\* original total length in decimal
ReturnedCut ==
    LET skip  == Len(ExitCodeLine)
        total == Len(CapturedText)
        L     == Len(run_output)
        tail  == Len(TOTAL_TAIL)
        head  == Len(TOTAL_HEAD)
        mark  == skip + MAX_OUTPUT_CHARACTERS
    IN  /\ L > mark + Len(TRUNCATED_HEAD)
        /\ SubSeq(run_output, 1, skip) = ExitCodeLine
        /\ SubSeq(run_output, skip + 1, mark) =
              SubSeq(CapturedText, 1, MAX_OUTPUT_CHARACTERS)
        /\ SubSeq(run_output, mark + 1, mark + Len(TRUNCATED_HEAD)) = TRUNCATED_HEAD
        /\ SubSeq(run_output, L - tail + 1, L) = TOTAL_TAIL
        /\ \E d \in 1..6 :
              /\ L - tail - d - head >= mark
              /\ DecimalValue(SubSeq(run_output, L - tail - d + 1, L - tail)) = total
              /\ SubSeq(run_output, L - tail - d - head + 1, L - tail - d) = TOTAL_HEAD

\* C10 as stated: P4 truncation boundary.  Truncation is decided on the
\* single concatenated text: one of exactly MAX_OUTPUT_CHARACTERS characters
\* is returned unmodified, a longer one is cut to its first
\* MAX_OUTPUT_CHARACTERS characters followed by a marker stating the
\* original total length.
C10_TruncationBoundary ==
    (run_pc = "done" /\ run_proc.kind = "exit")
    => /\ Len(CapturedText) = MAX_OUTPUT_CHARACTERS => ReturnedUnmodified
       /\ Len(CapturedText) > MAX_OUTPUT_CHARACTERS => ReturnedCut

\* C10 as amended: the same, except that a concatenated text of exactly
\* MAX_OUTPUT_CHARACTERS characters that is whitespace-only and comes with
\* exit code 0 is replaced by the no-output placeholder.
C10_TruncationBoundaryNonBlank ==
    (run_pc = "done" /\ run_proc.kind = "exit")
    => /\ Len(CapturedText) = MAX_OUTPUT_CHARACTERS =>
             IF run_proc.returncode = 0 /\ IsBlank(CapturedText)
             THEN run_output = NO_OUTPUT
             ELSE ReturnedUnmodified
       /\ Len(CapturedText) > MAX_OUTPUT_CHARACTERS => ReturnedCut

\* both streams captured, the divider included the text has exactly
\* MAX_OUTPUT_CHARACTERS characters, and it has been returned
C10_Witness ==
    /\ run_pc = "done"
    /\ run_proc.kind = "exit"
    /\ run_proc.stdout # <<>>
    /\ run_proc.stderr # <<>>
    /\ Len(CapturedText) = MAX_OUTPUT_CHARACTERS
    /\ Len(run_output) >= MAX_OUTPUT_CHARACTERS

\* pat occurs in text
Contains(text, pat) ==
    \E k \in 0..(Len(text) - Len(pat)) : SubSeq(text, k + 1, k + Len(pat)) = pat

StartsWith(text, pat) ==
    Len(text) >= Len(pat) /\ SubSeq(text, 1, Len(pat)) = pat

\* C11: empty-output placeholder.  Whenever the concatenated stdout/stderr
\* of an executed command is empty or whitespace-only, the text returned
\* contains the no-output placeholder, for every exit code.
C11_EmptyPlaceholder ==
    (run_pc = "done" /\ run_proc.kind = "exit" /\ IsBlank(CapturedText))
    => Contains(run_output, NO_OUTPUT)

\* C12: nonzero exit reporting.  With a nonzero exit code the text returned
\* is the line reporting that code followed by the captured output; the line
\* is added after truncation, so the cap applies to the captured output
\* alone and the line is never cut.  With exit code 0 nothing is prepended.
C12_ExitCodeLine ==
    (run_pc = "done" /\ run_proc.kind = "exit")
    => IF run_proc.returncode # 0
       THEN /\ StartsWith(run_output, EXIT_HEAD)
            /\ DecimalValue(SubSeq(run_output, Len(EXIT_HEAD) + 1,
                                   Len(ExitCodeLine) - Len(EXIT_TAIL)))
                  = run_proc.returncode
            /\ IF Len(CapturedText) > MAX_OUTPUT_CHARACTERS
               THEN ReturnedCut
               ELSE ReturnedUnmodified
       ELSE /\ ~StartsWith(run_output, EXIT_HEAD)
            /\ \/ run_output = NO_OUTPUT
               \/ IF Len(CapturedText) > MAX_OUTPUT_CHARACTERS
                  THEN ReturnedCut
                  ELSE ReturnedUnmodified

\* a command that failed after filling the cap exactly: the exit-code line
\* is in front of all MAX_OUTPUT_CHARACTERS characters, nothing was cut
C12_Witness ==
    /\ run_pc = "done"
    /\ run_proc.kind = "exit"
    /\ run_proc.returncode # 0
    /\ Len(CapturedText) = MAX_OUTPUT_CHARACTERS
    /\ Len(run_output) = Len(ExitCodeLine) + MAX_OUTPUT_CHARACTERS
    /\ StartsWith(run_output, EXIT_HEAD)


(* ------------------- claims on the outcomes of a call ------------------ *)

\* a subprocess that ran longer than its timeout
TimedOut == [kind |-> "timeout"]

\* a subprocess.run call that raised another exception
Faulted == [kind |-> "error", error |-> <<"E">>]

\* text is the timeout report and the number it states is timeout
TimeoutReport(text, timeout) ==
    /\ StartsWith(text, TIMEOUT_HEAD)
    /\ Len(text) > Len(TIMEOUT_HEAD) + Len(TIMEOUT_TAIL)
    /\ SubSeq(text, Len(text) - Len(TIMEOUT_TAIL) + 1, Len(text)) = TIMEOUT_TAIL
    /\ DecimalValue(SubSeq(text, Len(TIMEOUT_HEAD) + 1,
                           Len(text) - Len(TIMEOUT_TAIL))) = timeout

\* C13: P7 timeout reporting.  A command that runs longer than its timeout
\* yields, in that one call, a result text stating the configured timeout,
\* and the subprocess is run once (no retry); on Confirm, whatever the
\* subprocess did, it is run once, the history of the session receives the
\* entry of the command and the entry leaves the queue, and the output of a
\* run that timed out states the timeout stored in the entry.
C13_TimeoutReported ==
    /\ [][\A s \in Sessions : \A in \in SubmitInputs :
            (Submit(s, in.command, in.timeout)
               /\ ret'[s] = ExecutedText(in.command,
                     execute_command_directly(in.command, in.timeout, TimedOut)))
            => /\ TimeoutReport(ret'[s].output, in.timeout)
               /\ exec_log' = Append(exec_log,
                     RunRecord(in.command, in.timeout, ncalls', "submit"))]_vars
    /\ [][\A s \in Sessions : \A i \in 1..Len(pending_commands) :
            Confirm(s, i)
            => LET e == pending_commands[i]
               IN  /\ exec_log' = Append(exec_log,
                         RunRecord(e.command, e.timeout, e.id, "confirm"))
                   /\ Len(messages'[s]) = Len(messages[s]) + 1
                   /\ LastOf(messages'[s]).kind = "executed"
                   /\ LastOf(messages'[s]).command = e.command
                   /\ e.id \notin QueuedIds(pending_commands')
                   /\ (LastOf(messages'[s]).output =
                          execute_command_directly(e.command, e.timeout, TimedOut))
                      => TimeoutReport(LastOf(messages'[s]).output, e.timeout)]_vars

\* a confirmed command with timeout 10 timed out: its report is the last
\* entry of a history and the queue is empty
C13_Witness ==
    /\ pending_commands = <<>>
    /\ exec_log # <<>>
    /\ LastOf(exec_log).via = "confirm"
    /\ LastOf(exec_log).timeout = 10
    /\ \E s \in Sessions :
          /\ messages[s] # <<>>
          /\ LastOf(messages[s]).kind = "executed"
          /\ StartsWith(LastOf(messages[s]).output, TIMEOUT_HEAD)

\* the four terminal outcomes of the submit step of session s
SubmitRefused(s) ==
    /\ ret'[s].outcome = "refused"
    /\ exec_log' = exec_log
    /\ pending_commands' = pending_commands

SubmitDeferred(s) ==
    /\ ret'[s].outcome = "pending"
    /\ exec_log' = exec_log
    /\ Len(pending_commands') = Len(pending_commands) + 1

SubmitCompleted(s) ==
    /\ ret'[s].outcome = "executed"
    /\ ~StartsWith(ret'[s].output, ERROR_HEAD)
    /\ Len(exec_log') = Len(exec_log) + 1
    /\ pending_commands' = pending_commands

SubmitFault(s) ==
    /\ ret'[s].outcome = "executed"
    /\ ret'[s].output = ERROR_HEAD \o Faulted.error
    /\ Len(exec_log') = Len(exec_log) + 1
    /\ pending_commands' = pending_commands

\* C14: errors as values.  Every submit ends in exactly one of the four
\* terminal outcomes (refusal, deferred, completed or timed out, fault) and
\* returns a text; the subprocess is run at most once per submit; a fault
\* of the execution is returned as descriptive text and leaves both flags
\* and the queue as they were.
C14_ErrorsAsValues ==
    [][\A s \in Sessions : \A in \in SubmitInputs :
          Submit(s, in.command, in.timeout)
          => /\ Cardinality({o \in {"refusal", "deferred", "completed", "fault"} :
                    \/ o = "refusal" /\ SubmitRefused(s)
                    \/ o = "deferred" /\ SubmitDeferred(s)
                    \/ o = "completed" /\ SubmitCompleted(s)
                    \/ o = "fault" /\ SubmitFault(s)}) = 1
             /\ ret'[s].command = in.command
             /\ Len(exec_log') <= Len(exec_log) + 1
             /\ shell_commands_enabled' = shell_commands_enabled
             /\ confirmation_mode_enabled' = confirmation_mode_enabled
             /\ (ret'[s] = ExecutedText(in.command,
                      execute_command_directly(in.command, in.timeout, Faulted)))
                 => SubmitFault(s)]_vars

\* a submit has returned the text of a fault while a command was pending
C14_Witness ==
    \E s \in Sessions :
       /\ ret[s].outcome = "executed"
       /\ StartsWith(ret[s].output, ERROR_HEAD)
       /\ pending_commands # <<>>
       /\ Len(exec_log) = 1

\* the route the two flag values stand for
Decision(enabled, confirmation) ==
    IF ~enabled THEN "refused"
    ELSE IF confirmation THEN "pending"
    ELSE "executed"

\* a run of main() in session s, which calls both setters (lines 354-355)
ScriptRun(s) ==
    \/ LoadPage(s)
    \/ ToggleShell(s)
    \/ ToggleConfirmation(s)
    \/ ClearChat(s)
    \/ \E i \in 1..MaxWork : Confirm(s, i)
    \/ \E i \in 1..MaxWork : Cancel(s, i)
    \/ ConfirmAll(s)
    \/ CancelAll(s)
    \/ Prompt(s)
    \/ (EndTurn(s) /\ pending_commands # <<>>)

\* C15: flag changes take effect at once.  The setter calls of a script run
\* leave each flag at the value passed, no other step changes a flag, and
\* every submit routes (refuse / queue / execute) by the two flag values of
\* that moment alone, whatever was decided before, whatever the queue holds
\* and whether or not the same command was submitted before.
C15_FlagsTakeEffect ==
    /\ [][\A s \in Sessions :
            (\/ shell_commands_enabled' # ss_shell_commands_enabled'[s]
             \/ confirmation_mode_enabled' # ss_confirmation_mode'[s])
            => ~ScriptRun(s)]_vars
    /\ [][(shell_commands_enabled' # shell_commands_enabled
            \/ confirmation_mode_enabled' # confirmation_mode_enabled)
           => \E s \in Sessions : ScriptRun(s)]_vars
    /\ [][\A s \in Sessions : \A in \in SubmitInputs :
            Submit(s, in.command, in.timeout)
            => ret'[s].outcome =
                 Decision(shell_commands_enabled, confirmation_mode_enabled)]_vars

\* a command was queued and, the confirmation mode switched off since, the
\* same command submitted again has been executed at once
C15_Witness ==
    \E j \in 1..Len(pending_commands) : \E k \in 1..Len(exec_log) :
       /\ exec_log[k].via = "submit"
       /\ exec_log[k].command = pending_commands[j].command
       /\ exec_log[k].id > pending_commands[j].id
       /\ ~confirmation_mode_enabled

\* C19: approval bypasses the gateway decision.  Confirm on a pending entry
\* runs the subprocess directly, once, with the stored command and timeout
\* of the entry, and records its output; the entry is neither queued again
\* nor refused, whatever the flags are at that moment.
C19_ApprovalBypassesGateway ==
    [][\A s \in Sessions : \A i \in 1..Len(pending_commands) :
          Confirm(s, i)
          => LET e == pending_commands[i]
             IN  /\ exec_log' = Append(exec_log,
                       RunRecord(e.command, e.timeout, e.id, "confirm"))
                 /\ LastOf(messages'[s]).kind = "executed"
                 /\ LastOf(messages'[s]).command = e.command
                 /\ LastOf(messages'[s]).output \in
                       {execute_command_directly(e.command, e.timeout, proc) :
                           proc \in Procs}
                 /\ e.id \notin QueuedIds(pending_commands')
                 /\ Len(pending_commands') <= Len(pending_commands) - 1]_vars

\* a pending command has been run by Confirm in a session whose settings
\* still require confirmation
C19_Witness ==
    /\ exec_log # <<>>
    /\ LastOf(exec_log).via = "confirm"
    /\ shell_commands_enabled
    /\ confirmation_mode_enabled
    /\ \E s \in Sessions :
          /\ messages[s] # <<>>
          /\ LastOf(messages[s]).kind = "executed"
          /\ ss_confirmation_mode[s]


(* ----------------- claims on the interleaved statements ---------------- *)

\* C16: the setters are pure and idempotent.  set_shell_commands_enabled(b)
\* and set_confirmation_mode(b) leave their own flag at b and change neither
\* the other flag nor the pending queue nor the record of executions, so
\* queued commands stay pending when the mode is switched off or execution
\* is disabled; a call that passes the value the flag already has changes
\* nothing.
C16_SettersPureIdempotent ==
    /\ [][\A b \in BOOLEAN :
            CallSetShellCommandsEnabled(b)
            => /\ shell_commands_enabled' = b
               /\ confirmation_mode_enabled' = confirmation_mode_enabled
               /\ pending_commands' = pending_commands
               /\ exec_log' = exec_log
               /\ shell_commands_enabled = b => gateway_vars' = gateway_vars]_vars
    /\ [][\A b \in BOOLEAN :
            CallSetConfirmationMode(b)
            => /\ confirmation_mode_enabled' = b
               /\ shell_commands_enabled' = shell_commands_enabled
               /\ pending_commands' = pending_commands
               /\ exec_log' = exec_log
               /\ confirmation_mode_enabled = b => gateway_vars' = gateway_vars]_vars

\* a command queued under confirmation mode is still pending after the mode
\* was switched off and execution was disabled
C16_Witness ==
    /\ pending_commands # <<>>
    /\ ~confirmation_mode_enabled
    /\ ~shell_commands_enabled
    /\ sub.pc = "idle"

\* C17: atomic flag snapshot under concurrency.  When setters run while a
\* submit is in flight, the route the submit takes is the route of one flag
\* pair that held at some instant of the call; in particular it executes at
\* once only if (enabled, no confirmation) held at some instant of the call.
C17_AtomicFlagSnapshot ==
    [][SubmitLine129
       => /\ \E pair \in sub.held :
               sub'.ret.outcome = Decision(pair[1], pair[2])
          /\ sub'.ret.outcome = "executed" => <<TRUE, FALSE>> \in sub.held]_vars

\* what a caller does to a list it was handed
CallerChange ==
    \/ SnapshotAppend
    \/ \E k \in 1..MaxWork : SnapshotRemove(k)
    \/ SnapshotReverse
    \/ \E k \in 1..MaxWork : SnapshotSetCommand(k)
    \/ \E k \in 1..MaxWork : SnapshotSetTimeout(k)

\* C18: peek_all isolation.  The list get_pending_commands returns holds the
\* entries of the queue in FIFO order; nothing the caller does to it
\* (appending, removing, reordering, changing the command or timeout of an
\* entry) changes the queue, and a later enqueue or clear does not change a
\* list already returned.
C18_PeekIsolation ==
    /\ [][CallGetPendingCommands => snapshot' = pending_commands]_vars
    /\ [][CallerChange => pending_commands' = pending_commands]_vars
    /\ [][(\/ \E in \in SubmitInputs : CallAddPendingCommand(in.command, in.timeout)
           \/ CallClearPendingCommands)
          => snapshot' = snapshot]_vars

\* the steps that append to a chat history
RecordStep ==
    \/ \E s \in Sessions : ConfirmRecord(s)
    \/ \E s \in Sessions : ConfirmAllRecord(s)
    \/ \E s \in Sessions : \E i \in 1..MaxWork : CancelRecord(s, i)
    \/ \E s \in Sessions : CancelAllRecord(s)

\* session s received exactly the entry m, the other histories nothing
Appended(s, m) ==
    /\ messages'[s] = Append(messages[s], m)
    /\ \A t \in Sessions \ {s} : messages'[t] = messages[t]

\* C20: transcript ordering.  Every Confirm, Confirm All, Cancel and Cancel
\* All appends exactly one entry to the history of its session (the command
\* and its output, or the cancellation notice); the handler of an approved
\* command appends the entry after the execution has returned and before it
\* removes the entry from the queue.
C20_TranscriptOrdering ==
    /\ [][\A s \in Sessions : \A i \in 1..MaxWork :
            ConfirmRun(s, i)
            => /\ Len(exec_log') = Len(exec_log) + 1
               /\ LastOf(exec_log').id = pending_commands[i].id
               /\ messages' = messages
               /\ pending_commands' = pending_commands]_vars
    /\ [][\A s \in Sessions :
          ConfirmRecord(s)
          => /\ Appended(s, ExecutedMessage(approve[s].command, approve[s].output))
             /\ \E k \in 1..Len(exec_log) :
                   exec_log[k].id = approve[s].id /\ exec_log[k].via = "confirm"
             /\ exec_log' = exec_log
             /\ pending_commands' = pending_commands]_vars
    /\ [][\A s \in Sessions :
          ConfirmClear(s)
          => /\ messages' = messages
             /\ LastOf(messages[s]) =
                   ExecutedMessage(approve[s].command, approve[s].output)
             /\ approve[s].id \notin QueuedIds(pending_commands')]_vars
    /\ [][\A s \in Sessions :
            ConfirmAllRun(s)
            => /\ Len(exec_log') = Len(exec_log) + Len(pending_commands)
               /\ messages' = messages
               /\ pending_commands' = pending_commands]_vars
    /\ [][\A s \in Sessions :
          ConfirmAllRecord(s)
          => /\ Appended(s, ExecutedAllMessage(approve[s].blocks))
             /\ \A id \in approve[s].ids : \E k \in 1..Len(exec_log) :
                   exec_log[k].id = id /\ exec_log[k].via = "confirm_all"
             /\ exec_log' = exec_log
             /\ pending_commands' = pending_commands]_vars
    /\ [][\A s \in Sessions :
          ConfirmAllClear(s)
          => /\ messages' = messages
             /\ LastOf(messages[s]) = ExecutedAllMessage(approve[s].blocks)
             /\ approve[s].ids \cap QueuedIds(pending_commands') = {}]_vars
    /\ [][\A s \in Sessions : \A i \in 1..MaxWork :
            CancelRecord(s, i)
            => /\ Appended(s, CancelledMessage(pending_commands[i].command))
               /\ exec_log' = exec_log]_vars
    /\ [][\A s \in Sessions :
            CancelAllRecord(s)
            => /\ Appended(s, CancelledAllMessage(pending_commands))
               /\ exec_log' = exec_log]_vars
    /\ [][\A s \in Sessions :
          (CancelClear(s) \/ CancelAllClear(s))
          => /\ messages' = messages
             /\ exec_log' = exec_log]_vars
    /\ [][messages' # messages => RecordStep]_vars

\* the output of a confirmed command is in the history, the execution is
\* on record and the entry is still in the queue
C20_Witness ==
    \E s \in Sessions :
    /\ approve[s].pc = "recorded"
    /\ approve[s].id \in QueuedIds(pending_commands)
    /\ messages[s] # <<>>
    /\ LastOf(messages[s]) = ExecutedMessage(approve[s].command, approve[s].output)
    /\ \E k \in 1..Len(exec_log) : exec_log[k].id = approve[s].id

\* C21: no double-processing.  Across any sequence of submit, approve,
\* approve_all, deny, deny_all and clear actions each queued entry is executed
\* at most once: no two executions on record are of the same entry.
C21_ExecutedAtMostOnce ==
    \A j, k \in 1..Len(exec_log) :
        exec_log[j].id = exec_log[k].id => j = k

\* the step is a Confirm, Cancel, Confirm All or Cancel All run that acted
ResolveStep ==
    \E s \in Sessions :
       \/ \E i \in 1..Len(pending_commands) : Confirm(s, i) \/ Cancel(s, i)
       \/ ConfirmAll(s)
       \/ CancelAll(s)

\* the commands named by the cancellation notices the step appended
NoticedCommands ==
    UNION {LET new == Added(messages[s], messages'[s])
           IN  UNION {IF new[k].kind = "cancelled" THEN {new[k].command}
                      ELSE IF new[k].kind = "cancelled_all"
                           THEN {new[k].commands[j] : j \in 1..Len(new[k].commands)}
                           ELSE {} : k \in 1..Len(new)}
           : s \in {t \in Sessions : Len(messages'[t]) > Len(messages[t])}}

\* C22: accountability of queued commands.  Every entry that leaves the
\* queue in a Confirm, Cancel, Confirm All or Cancel All step was executed in
\* that step or is named in the cancellation notice the step appended: no
\* entry disappears silently when another entry is confirmed or cancelled.
C22_Accountability ==
    [][\A k \in 1..Len(pending_commands) :
          (/\ pending_commands[k].id \notin QueuedIds(pending_commands')
           /\ ResolveStep)
          => \/ \E j \in 1..Len(Added(exec_log, exec_log')) :
                   Added(exec_log, exec_log')[j].id = pending_commands[k].id
             \/ /\ pending_commands[k].id \in denied'
                /\ pending_commands[k].command \in NoticedCommands]_vars

\* C23: session isolation of the enable flag.  With two sessions in one
\* process, a submit by the agent of a session whose own "Enable Shell
\* Command Execution" setting is off runs nothing, and a submit by the agent
\* of a session whose own "Require Command Confirmation" setting is on runs
\* nothing at the submit, whatever script runs of the other session took
\* place in between.
C23_SessionIsolation ==
    [][\A s \in Sessions :
          (/\ exec_log' # exec_log
           /\ \E in \in SubmitInputs : Submit(s, in.command, in.timeout))
          => /\ ss_shell_commands_enabled[s]
             /\ ~ss_confirmation_mode[s]]_vars

\* the entries of the queue that are not in the given snapshot: they were
\* appended after the snapshot was taken
AppendedSince(seen) ==
    {pending_commands[k].id : k \in 1..Len(pending_commands)} \ seen

\* C24: no lost enqueue during resolution.  An entry that a concurrent
\* submit appended to the queue after a handler's script run took its
\* snapshot and before the handler calls clear is still in the queue when
\* the handler has finished.
C24_NoLostEnqueue ==
    /\ [][\A s \in Sessions :
            (ConfirmClear(s) \/ CancelClear(s))
            => AppendedSince(approve[s].seen) \subseteq QueuedIds(pending_commands')]_vars
    /\ [][\A s \in Sessions :
            (ConfirmAllClear(s) \/ CancelAllClear(s))
            => AppendedSince(approve[s].ids) \subseteq QueuedIds(pending_commands')]_vars

\* session s pressed a resolve button its run drew, or Clear Chat
ResolveOrClear(s) ==
    \/ ClearChat(s)
    \/ \E i \in 1..Len(pending_commands) : Confirm(s, i) \/ Cancel(s, i)
    \/ Len(pending_commands) > 1 /\ (ConfirmAll(s) \/ CancelAll(s))

====
